---- MODULE Spec2Model ----
(***************************************************************************)
(* add.py: add sums its variadic arguments and logs two DEBUG records; the  *)
(* __main__ block parses sys.argv, calls add and logs the result at INFO.  *)
(* test.py: three unit tests that call add and read the records back from  *)
(* a StreamHandler on a temporary file and from a QueueHandler.            *)
(*                                                                         *)
(* Text is a sequence of tokens: every character produced by a conversion  *)
(* (%s, %d, the line terminator) is one token, and the literal part of a   *)
(* format string is one token.                                             *)
(***************************************************************************)
EXTENDS Integers, Sequences, FiniteSets, TLC

\* ------------------------------------------------------------------ bounds
MaxArgs == 3
NumThreads == 2
MaxArgv == 3

\* ------------------------------------------------- constants of the program
NOTSET == 0
DEBUG == 10
INFO == 20
WARNING == 30
MainThread == 1

Threads == 1..NumThreads

\* the integers the inputs are drawn from
Vals == {-4, 0, 1, 2, 3, 5, 12}

RECURSIVE SeqsUpTo(_, _)
SeqsUpTo(S, n) ==
    IF n = 0 THEN {<<>>}
    ELSE LET shorter == SeqsUpTo(S, n - 1)
         IN  shorter \cup {Append(s, x) : s \in shorter, x \in S}

Inputs == SeqsUpTo(Vals, MaxArgs)

\* the argument tuples of the concurrent callers
ConcInputs == {<<>>, <<5>>, <<1, 2>>}

\* command-line words, one token per character
ArgWords ==
    { <<"1">>, <<"2">>, <<"3">>, <<"-", "4">>, <<"1", "2">>, <<"+", "7">>,
      <<" ", "5">>, <<"1", "_", "0">>, <<"x">>, <<"1", "a">>, <<"-">>, <<>>,
      <<"1", "_">> }

Argvs == SeqsUpTo(ArgWords, MaxArgv)

TestNames == {"test_add", "test_add_check_log_file", "test_add_check_log_queue"}

VARIABLES
    pc,           \* per thread: the line of add about to run
    vargs,        \* per thread: add's argument tuple
    res,          \* per thread: add's local res
    ret,          \* per thread: the value add returned
    level,        \* level of the module logger
    handlers,     \* handlers attached to the module logger
    rootLevel,    \* level of the root logger
    rootHandlers, \* handlers attached to the root logger
    log,          \* contents of the stream handler's file
    q,            \* contents of the queue handler's queue
    stdout,       \* the process's standard output
    stderr,       \* the process's standard error
    running,      \* the unit test in progress, or "none"
    ran,          \* the unit tests finished
    params,       \* the tests' params tuple
    result,       \* per test: what add returned to it
    lines,        \* test_add_check_log_file: logdata.splitlines()
    msgs,         \* test_add_check_log_queue: the messages got from q
    raised,       \* an exception escaped add or a test's reads
    argv,         \* sys.argv[1:]
    cpc,          \* position of the __main__ block
    a,            \* __main__'s variable a
    exitcode      \* the process's exit status once cpc = "exit"

addVars == <<pc, vargs, res, ret>>
loggerVars == <<level, handlers, rootLevel, rootHandlers>>
sinkVars == <<log, q, stdout, stderr>>
testVars == <<running, ran, params, result, lines, msgs>>
mainVars == <<argv, cpc, a, exitcode>>
vars == <<pc, vargs, res, ret, level, handlers, rootLevel, rootHandlers,
          log, q, stdout, stderr, running, ran, params, result, lines, msgs,
          raised, argv, cpc, a, exitcode>>

\* ------------------------------------------------------------ conversions
DigitChars == <<"0", "1", "2", "3", "4", "5", "6", "7", "8", "9">>

RECURSIVE Digits(_)
Digits(n) ==
    IF n < 10 THEN <<DigitChars[n + 1]>>
    ELSE Digits(n \div 10) \o <<DigitChars[(n % 10) + 1]>>

\* str(n) / '%d' % n of an int
int_str(n) == IF n < 0 THEN <<"-">> \o Digits(-n) ELSE Digits(n)

RECURSIVE JoinInts(_)
JoinInts(xs) ==
    IF Len(xs) = 0 THEN <<>>
    ELSE IF Len(xs) = 1 THEN int_str(xs[1])
    ELSE int_str(xs[1]) \o <<",", " ">> \o JoinInts(Tail(xs))

\* faulty variant: the one-element tuple rendered without its trailing comma
tuple_str_nocomma(xs) == <<"(">> \o JoinInts(xs) \o <<")">>

\* str(t) of a tuple of ints
tuple_str(xs) ==
    <<"(">> \o JoinInts(xs) \o (IF Len(xs) = 1 THEN <<",">> ELSE <<>>) \o <<")">>

TupleArg(xs) == [kind |-> "tuple", val |-> xs]
IntArg(n) == [kind |-> "int", val |-> n]

\* msg % args: each conversion of the format takes the next argument
RECURSIVE Percent(_, _)
Percent(fmt, args) ==
    IF fmt = <<>> THEN <<>>
    ELSE IF Head(fmt) = "%s"
         THEN (IF Head(args).kind = "tuple" THEN tuple_str(Head(args).val)
               ELSE int_str(Head(args).val))
              \o Percent(Tail(fmt), Tail(args))
    ELSE IF Head(fmt) = "%d"
         THEN int_str(Head(args).val) \o Percent(Tail(fmt), Tail(args))
    ELSE <<Head(fmt)>> \o Percent(Tail(fmt), args)

\* LogRecord.getMessage(): args None or empty leaves msg as it is
getMessage(r) == IF r.args = <<>> THEN r.msg ELSE Percent(r.msg, r.args)

\* sum(vargs): the builtin's left-to-right accumulation from 0
RECURSIVE SumFrom(_, _, _)
SumFrom(acc, xs, i) == IF i > Len(xs) THEN acc ELSE SumFrom(acc + xs[i], xs, i + 1)

\* faulty variant: the accumulation skips the first argument
pysum_skipfirst(xs) == SumFrom(0, xs, 2)

pysum(xs) == SumFrom(0, xs, 1)

\* str.splitlines() on a text whose only line boundary is the "\n" token
RECURSIVE SplitFrom(_, _, _)
SplitFrom(text, i, cur) ==
    IF i > Len(text) THEN (IF cur = <<>> THEN <<>> ELSE <<cur>>)
    ELSE IF text[i] = "\n" THEN <<cur>> \o SplitFrom(text, i + 1, <<>>)
    ELSE SplitFrom(text, i + 1, Append(cur, text[i]))

splitlines(text) == SplitFrom(text, 1, <<>>)

IsDigit(c) == \E d \in 1..10 : DigitChars[d] = c

DigitVal(c) == (CHOOSE d \in 1..10 : DigitChars[d] = c) - 1

\* str.strip() of the word, as int() does before it reads the number
RECURSIVE lstrip(_)
lstrip(w) == IF w # <<>> /\ Head(w) = " " THEN lstrip(Tail(w)) ELSE w

RECURSIVE rstrip(_)
rstrip(w) ==
    IF w # <<>> /\ w[Len(w)] = " " THEN rstrip(SubSeq(w, 1, Len(w) - 1)) ELSE w

\* the digits of int(): decimal digits, a single underscore allowed between
\* two digits; prev is what the scan read last
RECURSIVE ScanDigits(_, _, _, _)
ScanDigits(body, i, acc, prev) ==
    IF i > Len(body) THEN [ok |-> prev = "digit", val |-> acc]
    ELSE IF IsDigit(body[i])
         THEN ScanDigits(body, i + 1, acc * 10 + DigitVal(body[i]), "digit")
    ELSE IF body[i] = "_" /\ prev = "digit"
         THEN ScanDigits(body, i + 1, acc, "underscore")
    ELSE [ok |-> FALSE, val |-> 0]

\* faulty variant: the leading number is read and the rest ignored, as atoi does
py_int_atoi(word) ==
    LET s == rstrip(lstrip(word))
        n == IF s # <<>> /\ IsDigit(Head(s)) THEN DigitVal(Head(s)) ELSE 0
    IN  [ok |-> TRUE, val |-> n]

\* int(word): ok is FALSE where int raises ValueError
py_int(word) ==
    LET s == rstrip(lstrip(word))
        signed == s # <<>> /\ Head(s) \in {"+", "-"}
        scan == ScanDigits(IF signed THEN Tail(s) ELSE s, 1, 0, "none")
    IN  [ok |-> scan.ok,
         val |-> IF signed /\ Head(s) = "-" THEN 0 - scan.val ELSE scan.val]

\* ---------------------------------------------------------------- logging
\* Logger.getEffectiveLevel(): the logger's own level, or its parent's (root)
EffectiveLevel == IF level # NOTSET THEN level ELSE rootLevel

\* faulty variant: a record at exactly the effective level is dropped
isEnabledFor_strict(levelno) == levelno > EffectiveLevel

\* Logger.isEnabledFor(levelno)
isEnabledFor(levelno) == levelno >= EffectiveLevel

\* faulty variant: the record is not propagated to the root logger's handlers
callHandlers_nopropagate(levelno) ==
    IF handlers # {} THEN handlers
    ELSE IF levelno >= WARNING THEN {"lastResort"}
    ELSE {}

\* Logger.callHandlers(): the logger's handlers, then (propagate) the root's;
\* when none is found, logging.lastResort, whose level is WARNING
callHandlers(levelno) ==
    IF handlers \cup rootHandlers # {} THEN handlers \cup rootHandlers
    ELSE IF levelno >= WARNING THEN {"lastResort"}
    ELSE {}

\* StreamHandler.emit(): stream.write(format(record) + terminator), with the
\* message-only format, in one write under the handler's lock
StreamEmit(stream, rec) == stream \o getMessage(rec) \o <<"\n">>

\* faulty variant: the args are dropped without rendering the message first
prepare_unrendered(rec) == [rec EXCEPT !.args = <<>>]

\* QueueHandler.prepare(): the message is rendered into msg, args dropped
prepare(rec) == [rec EXCEPT !.msg = getMessage(rec), !.args = <<>>]

\* faulty variant: an unsynchronised put, which overwrites another thread's last record
QueueEmit_unlocked(queue, rec) ==
    IF queue # <<>> /\ queue[Len(queue)].thread # rec.thread
    THEN [queue EXCEPT ![Len(queue)] = prepare(rec)]
    ELSE Append(queue, prepare(rec))

\* QueueHandler.emit(): queue.put_nowait(prepare(record)), under the lock
QueueEmit(queue, rec) == Append(queue, prepare(rec))

\* logger.log(levelno, fmt, *args) called by thread t
LoggerLog(t, levelno, fmt, args) ==
    LET rec == [msg |-> fmt, args |-> args, levelno |-> levelno, thread |-> t]
        to == IF isEnabledFor(levelno) THEN callHandlers(levelno) ELSE {}
    IN  /\ log' = IF "stream" \in to THEN StreamEmit(log, rec) ELSE log
        /\ q' = IF "queue" \in to THEN QueueEmit(q, rec) ELSE q
        /\ stderr' = IF "stderr" \in to \/ "lastResort" \in to
                     THEN StreamEmit(stderr, rec) ELSE stderr
        /\ stdout' = stdout

\* -------------------------------------------------------------------- add
\* the call add(*xs) made by thread t: control enters the body
Call(t, xs) ==
    /\ pc[t] = "idle"
    /\ pc' = [pc EXCEPT ![t] = "l9"]
    /\ vargs' = [vargs EXCEPT ![t] = xs]

\* logger.debug('Calculating the sum of %s', vargs)
AddL9(t) ==
    /\ pc[t] = "l9"
    /\ LoggerLog(t, DEBUG, <<"Calculating the sum of ", "%s">>, <<TupleArg(vargs[t])>>)
    /\ pc' = [pc EXCEPT ![t] = "l10"]
    /\ UNCHANGED <<vargs, res, ret, loggerVars, testVars, raised, mainVars>>

\* faulty variant: the sum is computed only when the DEBUG records are enabled
AddL10_guarded(t) ==
    /\ pc[t] = "l10"
    /\ res' = [res EXCEPT ![t] = IF isEnabledFor(DEBUG) THEN pysum(vargs[t]) ELSE 0]
    /\ pc' = [pc EXCEPT ![t] = "l11"]
    /\ UNCHANGED <<vargs, ret, loggerVars, sinkVars, testVars, raised, mainVars>>

\* faulty variant: res is one variable shared by all invocations
AddL10_shared(t) ==
    /\ pc[t] = "l10"
    /\ res' = [u \in Threads |-> pysum(vargs[t])]
    /\ pc' = [pc EXCEPT ![t] = "l11"]
    /\ UNCHANGED <<vargs, ret, loggerVars, sinkVars, testVars, raised, mainVars>>

\* res = sum(vargs)
AddL10(t) ==
    /\ pc[t] = "l10"
    /\ res' = [res EXCEPT ![t] = pysum(vargs[t])]
    /\ pc' = [pc EXCEPT ![t] = "l11"]
    /\ UNCHANGED <<vargs, ret, loggerVars, sinkVars, testVars, raised, mainVars>>

\* logger.debug('Result is %d', res)
AddL11(t) ==
    /\ pc[t] = "l11"
    /\ LoggerLog(t, DEBUG, <<"Result is ", "%d">>, <<IntArg(res[t])>>)
    /\ pc' = [pc EXCEPT ![t] = "l12"]
    /\ UNCHANGED <<vargs, res, ret, loggerVars, testVars, raised, mainVars>>

\* return res
AddL12(t) ==
    /\ pc[t] = "l12"
    /\ ret' = [ret EXCEPT ![t] = res[t]]
    /\ pc' = [pc EXCEPT ![t] = "done"]
    /\ UNCHANGED <<vargs, res, loggerVars, sinkVars, testVars, raised, mainVars>>

\* the caller takes the returned value: the invocation's frame is gone
Returned(t) ==
    /\ pc[t] = "done"
    /\ pc' = [pc EXCEPT ![t] = "idle"]

\* ---------------------------------------------------------------- test.py
\* a unit test ends
EndTest(name) ==
    /\ ran' = ran \cup {name}
    /\ running' = "none"

\* test_add: add.add(*params) is called
TestAddCall ==
    /\ running = "none" /\ "test_add" \notin ran
    /\ running' = "test_add"
    /\ Call(MainThread, params)
    /\ UNCHANGED <<res, ret, loggerVars, sinkVars, ran, params, result, lines,
                   msgs, raised, mainVars>>

\* test_add: the value returned is compared with the expected sum
TestAddAssert ==
    /\ running = "test_add"
    /\ Returned(MainThread)
    /\ result' = [result EXCEPT !["test_add"] = ret[MainThread]]
    /\ EndTest("test_add")
    /\ UNCHANGED <<vargs, res, ret, loggerVars, sinkVars, params, lines, msgs,
                   raised, mainVars>>

\* test_add_check_log_file: setLevel(DEBUG), a StreamHandler on a new
\* temporary file is added, and add.add(*params) is called
TestFileCall ==
    /\ running = "none" /\ "test_add_check_log_file" \notin ran
    /\ running' = "test_add_check_log_file"
    /\ level' = DEBUG
    /\ log' = <<>>
    /\ handlers' = handlers \cup {"stream"}
    /\ Call(MainThread, params)
    /\ UNCHANGED <<res, ret, rootLevel, rootHandlers, q, stdout, stderr, ran,
                   params, result, lines, msgs, raised, mainVars>>

\* test_add_check_log_file: the handler is removed, the file is read back
\* and split into lines, of which lines[0] and lines[1] are compared
TestFileRead ==
    /\ running = "test_add_check_log_file"
    /\ Returned(MainThread)
    /\ result' = [result EXCEPT !["test_add_check_log_file"] = ret[MainThread]]
    /\ handlers' = handlers \ {"stream"}
    /\ lines' = splitlines(log)
    /\ raised' = (raised \/ Len(splitlines(log)) < 2)
    /\ EndTest("test_add_check_log_file")
    /\ UNCHANGED <<vargs, res, ret, level, rootLevel, rootHandlers, sinkVars,
                   params, msgs, mainVars>>

\* test_add_check_log_queue: setLevel(DEBUG), a QueueHandler on a new
\* SimpleQueue is added, and add.add(*params) is called
TestQueueCall ==
    /\ running = "none" /\ "test_add_check_log_queue" \notin ran
    /\ running' = "test_add_check_log_queue"
    /\ level' = DEBUG
    /\ q' = <<>>
    /\ msgs' = <<>>
    /\ handlers' = handlers \cup {"queue"}
    /\ Call(MainThread, params)
    /\ UNCHANGED <<res, ret, rootLevel, rootHandlers, log, stdout, stderr, ran,
                   params, result, lines, raised, mainVars>>

\* test_add_check_log_queue: the value returned is compared and the handler
\* is removed
TestQueueRemove ==
    /\ running = "test_add_check_log_queue"
    /\ Returned(MainThread)
    /\ result' = [result EXCEPT !["test_add_check_log_queue"] = ret[MainThread]]
    /\ handlers' = handlers \ {"queue"}
    /\ UNCHANGED <<vargs, res, ret, level, rootLevel, rootHandlers, sinkVars,
                   running, ran, params, lines, msgs, raised, mainVars>>

\* test_add_check_log_queue: q.get_nowait().getMessage(), twice; get_nowait
\* raises queue.Empty on an empty queue
TestQueueGet ==
    /\ running = "test_add_check_log_queue"
    /\ pc[MainThread] = "idle"
    /\ IF q = <<>>
       THEN /\ raised' = TRUE
            /\ EndTest("test_add_check_log_queue")
            /\ UNCHANGED <<q, msgs>>
       ELSE /\ msgs' = Append(msgs, getMessage(Head(q)))
            /\ q' = Tail(q)
            /\ raised' = raised
            /\ IF Len(msgs) = 1
               THEN EndTest("test_add_check_log_queue")
               ELSE UNCHANGED <<running, ran>>
    /\ UNCHANGED <<addVars, loggerVars, log, stdout, stderr, params, result,
                   lines, mainVars>>

\* --------------------------------------------------------- specifications
InitCommon ==
    /\ pc = [t \in Threads |-> "idle"]
    /\ vargs = [t \in Threads |-> <<>>]
    /\ res = [t \in Threads |-> 0]
    /\ ret = [t \in Threads |-> 0]
    /\ level = NOTSET
    /\ handlers = {}
    /\ rootLevel = WARNING
    /\ rootHandlers = {}
    /\ log = <<>>
    /\ q = <<>>
    /\ stdout = <<>>
    /\ stderr = <<>>
    /\ running = "none"
    /\ ran = {}
    /\ result = [n \in TestNames |-> 0]
    /\ lines = <<>>
    /\ msgs = <<>>
    /\ raised = FALSE
    /\ cpc = "start"
    /\ a = 0
    /\ exitcode = 0

\* the unit tests, run in any order on one params tuple
Init ==
    /\ InitCommon
    /\ params \in Inputs
    /\ argv = <<>>

Next ==
    \/ TestAddCall
    \/ TestAddAssert
    \/ TestFileCall
    \/ TestFileRead
    \/ TestQueueCall
    \/ TestQueueRemove
    \/ TestQueueGet
    \/ AddL9(MainThread)
    \/ AddL10(MainThread)
    \/ AddL11(MainThread)
    \/ AddL12(MainThread)

Spec == Init /\ [][Next]_vars

\* ------------------------------------------------------ add.py's __main__
\* faulty variant: the root logger is configured at DEBUG
MainL16_debug ==
    /\ cpc = "start"
    /\ rootHandlers' = rootHandlers \cup {"stderr"}
    /\ rootLevel' = DEBUG
    /\ cpc' = "l17"
    /\ UNCHANGED <<addVars, level, handlers, sinkVars, testVars, raised, argv,
                   a, exitcode>>

\* logging.basicConfig(format='%(message)s', level=logging.INFO): the root
\* logger gets a StreamHandler on sys.stderr and the level INFO
MainL16 ==
    /\ cpc = "start"
    /\ rootHandlers' = rootHandlers \cup {"stderr"}
    /\ rootLevel' = INFO
    /\ cpc' = "l17"
    /\ UNCHANGED <<addVars, level, handlers, sinkVars, testVars, raised, argv,
                   a, exitcode>>

\* what the interpreter writes to sys.stderr for the uncaught ValueError
Traceback ==
    <<"Traceback (most recent call last):", "\n",
      "ValueError: invalid literal for int() with base 10", "\n">>

\* [int(i) for i in sys.argv[1:]], then the call add(*...); a ValueError of
\* int() is not caught: the traceback goes to stderr and the status is 1
MainL17 ==
    /\ cpc = "l17"
    /\ LET parsed == [i \in 1..Len(argv) |-> py_int(argv[i])]
       IN  IF \A i \in 1..Len(argv) : parsed[i].ok
           THEN /\ Call(MainThread, [i \in 1..Len(argv) |-> parsed[i].val])
                /\ cpc' = "l17call"
                /\ UNCHANGED <<stderr, exitcode, raised>>
           ELSE /\ stderr' = stderr \o Traceback
                /\ raised' = TRUE
                /\ exitcode' = 1
                /\ cpc' = "exit"
                /\ UNCHANGED <<pc, vargs>>
    /\ UNCHANGED <<res, ret, loggerVars, log, q, stdout, testVars, argv, a>>

\* a = add(...): the returned value is bound to a
MainL17Return ==
    /\ cpc = "l17call"
    /\ Returned(MainThread)
    /\ a' = ret[MainThread]
    /\ cpc' = "l18"
    /\ UNCHANGED <<vargs, res, ret, loggerVars, sinkVars, testVars, raised,
                   argv, exitcode>>

\* logger.info('%d', a), after which the script ends with status 0
MainL18 ==
    /\ cpc = "l18"
    /\ LoggerLog(MainThread, INFO, <<"%d">>, <<IntArg(a)>>)
    /\ exitcode' = 0
    /\ cpc' = "exit"
    /\ UNCHANGED <<addVars, loggerVars, testVars, raised, argv, a>>

\* one run of the script on a command line
InitCLI ==
    /\ InitCommon
    /\ params = <<>>
    /\ argv \in Argvs

NextCLI ==
    \/ MainL16
    \/ MainL17
    \/ MainL17Return
    \/ MainL18
    \/ AddL9(MainThread)
    \/ AddL10(MainThread)
    \/ AddL11(MainThread)
    \/ AddL12(MainThread)

SpecCLI == InitCLI /\ [][NextCLI]_vars

\* ---------------------------------------------------- concurrent callers
\* the client's set-up, as the tests do it: setLevel(DEBUG) and one sink
ConcSetup(h) ==
    /\ running = "none"
    /\ running' = "concurrent"
    /\ level' = DEBUG
    /\ handlers' = handlers \cup {h}
    /\ UNCHANGED <<addVars, rootLevel, rootHandlers, sinkVars, ran, params,
                   result, lines, msgs, raised, mainVars>>

\* thread t calls add(*xs), once
ThreadCall(t, xs) ==
    /\ running = "concurrent"
    /\ Call(t, xs)
    /\ UNCHANGED <<res, ret, loggerVars, sinkVars, testVars, raised, mainVars>>

InitConc ==
    /\ InitCommon
    /\ params = <<>>
    /\ argv = <<>>

NextConc ==
    \/ \E h \in {"stream", "queue"} : ConcSetup(h)
    \/ \E t \in Threads : \E xs \in ConcInputs : ThreadCall(t, xs)
    \/ \E t \in Threads : AddL9(t)
    \/ \E t \in Threads : AddL10(t)
    \/ \E t \in Threads : AddL11(t)
    \/ \E t \in Threads : AddL12(t)

SpecConc == InitConc /\ [][NextConc]_vars

\* ============================================================= properties
\* What the properties read texts and sums against: the arithmetic sum by
\* recursion on the head, and readers that take a text back to the value.
RECURSIVE ArithSum(_)
ArithSum(xs) == IF xs = <<>> THEN 0 ELSE Head(xs) + ArithSum(Tail(xs))

DigitOf(c) ==
    CASE c = "0" -> 0 [] c = "1" -> 1 [] c = "2" -> 2 [] c = "3" -> 3
      [] c = "4" -> 4 [] c = "5" -> 5 [] c = "6" -> 6 [] c = "7" -> 7
      [] c = "8" -> 8 [] c = "9" -> 9

DigitToks == {"0", "1", "2", "3", "4", "5", "6", "7", "8", "9"}

RECURSIVE ValueOf(_)
ValueOf(ts) ==
    IF ts = <<>> THEN 0
    ELSE 10 * ValueOf(SubSeq(ts, 1, Len(ts) - 1)) + DigitOf(ts[Len(ts)])

\* ts is the decimal numeral of the natural number n, without leading zeros
ReadsAsNat(ts, n) ==
    /\ ts # <<>>
    /\ \A i \in 1..Len(ts) : ts[i] \in DigitToks
    /\ Len(ts) > 1 => ts[1] # "0"
    /\ ValueOf(ts) = n

\* ts is the decimal numeral of the integer n
ReadsAsInt(ts, n) ==
    IF n < 0 THEN ts # <<>> /\ ts[1] = "-" /\ ReadsAsNat(Tail(ts), 0 - n)
    ELSE ReadsAsNat(ts, n)

RECURSIVE ItemsFrom(_, _, _)
ItemsFrom(ts, i, cur) ==
    IF i > Len(ts) THEN <<cur>>
    ELSE IF ts[i] = "," /\ i < Len(ts) /\ ts[i + 1] = " "
         THEN <<cur>> \o ItemsFrom(ts, i + 2, <<>>)
    ELSE ItemsFrom(ts, i + 1, Append(cur, ts[i]))

\* ts is the parenthesized, ", "-separated rendering of the tuple xs, with
\* the trailing comma exactly when xs has one element
ReadsAsTuple(ts, xs) ==
    /\ Len(ts) >= 2 /\ ts[1] = "(" /\ ts[Len(ts)] = ")"
    /\ LET inner == SubSeq(ts, 2, Len(ts) - 1)
       IN  IF xs = <<>> THEN inner = <<>>
           ELSE IF Len(xs) = 1
                THEN /\ inner # <<>> /\ inner[Len(inner)] = ","
                     /\ ReadsAsInt(SubSeq(inner, 1, Len(inner) - 1), xs[1])
           ELSE LET items == ItemsFrom(inner, 1, <<>>)
                IN  /\ Len(items) = Len(xs)
                    /\ \A i \in 1..Len(xs) : ReadsAsInt(items[i], xs[i])

\* text is the first record of an invocation on xs
IsCalculating(text, xs) ==
    /\ text # <<>> /\ Head(text) = "Calculating the sum of "
    /\ ReadsAsTuple(Tail(text), xs)

\* text is the second record of an invocation whose sum is s
IsResult(text, s) ==
    /\ text # <<>> /\ Head(text) = "Result is "
    /\ ReadsAsInt(Tail(text), s)

\* the record texts a sink holds, in order
StreamTexts == splitlines(log)
QueueTexts == [i \in 1..Len(q) |-> getMessage(q[i])]

\* the texts held by the sinks now attached to the module logger
AttachedTexts ==
    (IF "stream" \in handlers THEN {StreamTexts} ELSE {})
        \cup (IF "queue" \in handlers THEN {QueueTexts} ELSE {})

\* how many records an invocation at position p has emitted
Emitted(p) ==
    IF p \in {"l10", "l11"} THEN 1 ELSE IF p \in {"l12", "done"} THEN 2 ELSE 0

\* C1: whenever add has returned, the value returned is the arithmetic sum
\* of its arguments (0 for no arguments), and so is what each test received.
C1_SumIsArithmeticSum ==
    /\ \A t \in Threads : pc[t] = "done" => ret[t] = ArithSum(vargs[t])
    /\ \A n \in ran : result[n] = ArithSum(params)

C1_Witness ==
    /\ ran = TestNames
    /\ params = <<-4, 12, 5>>
    /\ \A n \in TestNames : result[n] = 13

\* C2: with the logger at DEBUG and a sink attached, an invocation that has
\* returned has delivered exactly two records to the sink, first
\* 'Calculating the sum of <tuple of the arguments>', then 'Result is <s>'
\* with s the value it returns; an invocation between the two calls has
\* delivered the first only.
C2_TwoRecordsInOrder ==
    \A texts \in AttachedTexts :
        level = DEBUG =>
            /\ Len(texts) = Emitted(pc[MainThread])
            /\ Len(texts) >= 1 => IsCalculating(texts[1], vargs[MainThread])
            /\ pc[MainThread] = "done" =>
                   /\ IsResult(texts[2], ret[MainThread])
                   /\ vargs[MainThread] = <<1, 2, 3>> =>
                          texts = << <<"Calculating the sum of ", "(", "1", ",",
                                       " ", "2", ",", " ", "3", ")">>,
                                     <<"Result is ", "6">> >>

C2_Witness ==
    /\ pc[MainThread] = "done"
    /\ level = DEBUG
    /\ "stream" \in handlers
    /\ vargs[MainThread] = <<1, 2, 3>>
    /\ ret[MainThread] = 6
    /\ Len(StreamTexts) = 2

\* C5: once both log tests have run on the same params, the lines read back
\* from the stream handler's file are the messages got from the queue
\* handler's queue, in the same order.
C5_StreamEqualsQueue ==
    {"test_add_check_log_file", "test_add_check_log_queue"} \subseteq ran =>
        /\ ~raised
        /\ lines = msgs

C5_Witness ==
    /\ {"test_add_check_log_file", "test_add_check_log_queue"} \subseteq ran
    /\ params = <<1, 2, 3>>
    /\ Len(lines) = 2
    /\ lines = msgs

\* C6: no exception escapes, and the call made with no sink attached
\* (test_add, whatever the logger's level then is) returns the same value
\* as the calls made at DEBUG with a stream or a queue sink attached.
C6_ResultIndependentOfLogging ==
    /\ ~raised
    /\ \A n \in ran : \A m \in ran : result[n] = result[m]

C6_Witness ==
    /\ ran = {"test_add", "test_add_check_log_queue"}
    /\ level = DEBUG
    /\ handlers = {}
    /\ params = <<1, 2, 3>>
    /\ result["test_add"] = 6
    /\ result["test_add_check_log_queue"] = 6

\* C8: the first record renders the whole argument tuple: '(5,)' with its
\* trailing comma for the one argument 5, '()' for no arguments, and in
\* general the parenthesized sequence of the arguments.
C8_TupleRendering ==
    \A texts \in AttachedTexts :
        (level = DEBUG /\ pc[MainThread] \in {"l10", "l11", "l12", "done"}) =>
            LET first == texts[1]
                xs == vargs[MainThread]
            IN  /\ Head(first) = "Calculating the sum of "
                /\ ReadsAsTuple(Tail(first), xs)
                /\ xs = <<5>> => first = <<"Calculating the sum of ", "(", "5", ",", ")">>
                /\ xs = <<>> => first = <<"Calculating the sum of ", "(", ")">>
                /\ Len(xs) = 1 =>
                       /\ ~ReadsAsInt(Tail(first), xs[1])
                       /\ first[Len(first) - 1] = ","

C8_Witness ==
    /\ pc[MainThread] = "l10"
    /\ "queue" \in handlers
    /\ vargs[MainThread] = <<5>>
    /\ QueueTexts = << <<"Calculating the sum of ", "(", "5", ",", ")">> >>

\* ----------------------------------------------------- the command line
\* the word without its leading and trailing blanks
Trimmed(w) ==
    LET inked == {i \in 1..Len(w) : w[i] # " "}
    IN  IF inked = {} THEN <<>>
        ELSE SubSeq(w, CHOOSE i \in inked : \A j \in inked : i <= j,
                       CHOOSE i \in inked : \A j \in inked : i >= j)

\* w is text int() converts: blanks around an optional sign and decimal
\* digits, in which single underscores may separate digits
IsIntegerText(w) ==
    LET s == Trimmed(w)
        body == IF s # <<>> /\ s[1] \in {"+", "-"} THEN Tail(s) ELSE s
    IN  /\ body # <<>>
        /\ body[1] \in DigitToks /\ body[Len(body)] \in DigitToks
        /\ \A i \in 1..Len(body) : body[i] \in DigitToks \cup {"_"}
        /\ \A i \in 1..(Len(body) - 1) : ~(body[i] = "_" /\ body[i + 1] = "_")

OneTwoThree == << <<"1">>, <<"2">>, <<"3">> >>

\* C3 as stated: run on the arguments 1 2 3, the script prints 6 to
\* standard output and exits with status 0.
C3_PrintsToStdout ==
    (cpc = "exit" /\ argv = OneTwoThree) =>
        /\ stdout = <<"6", "\n">>
        /\ exitcode = 0

\* C3 amended: run on the arguments 1 2 3, the script writes the line 6 to
\* standard error, through the handler basicConfig puts on the root logger,
\* writes nothing to standard output, and exits with status 0.
C3_PrintsToStderr ==
    (cpc = "exit" /\ argv = OneTwoThree) =>
        /\ stderr = <<"6", "\n">>
        /\ stdout = <<>>
        /\ exitcode = 0

C3_Witness ==
    /\ cpc = "exit"
    /\ argv = OneTwoThree
    /\ a = 6
    /\ stderr = <<"6", "\n">>

\* C4: when some argument is not integer text, the conversion fails before
\* add is entered: no invocation starts, no record and no sum appear on any
\* output, standard output stays empty, and the exit status is nonzero.
C4_ParseErrorBeforeAdd ==
    (\E i \in 1..Len(argv) : ~IsIntegerText(argv[i])) =>
        /\ pc[MainThread] = "idle"
        /\ cpc \in {"start", "l17", "exit"}
        /\ stdout = <<>> /\ log = <<>> /\ q = <<>>
        /\ \A i \in 1..Len(stderr) :
               /\ stderr[i] \notin {"Calculating the sum of ", "Result is "}
               /\ stderr[i] \notin DigitToks
        /\ cpc = "exit" => exitcode # 0

C4_Witness ==
    /\ cpc = "exit"
    /\ argv = << <<"1">>, <<"1", "a">> >>
    /\ exitcode = 1
    /\ stdout = <<>>

\* C7: under the script's configuration (root at INFO) the two DEBUG records
\* are suppressed: a run on integer arguments that has ended has emitted one
\* message only, the sum, and no output ever holds a 'Calculating the sum
\* of' or 'Result is' record.
C7_DebugSuppressedAtInfo ==
    /\ \A out \in {stdout, stderr, log} :
           \A i \in 1..Len(out) :
               out[i] \notin {"Calculating the sum of ", "Result is "}
    /\ q = <<>>
    /\ (cpc = "exit" /\ exitcode = 0) =>
           /\ stdout = <<>>
           /\ Len(splitlines(stderr)) = 1
           /\ ReadsAsInt(splitlines(stderr)[1], ArithSum(vargs[MainThread]))

C7_Witness ==
    /\ cpc = "exit"
    /\ exitcode = 0
    /\ argv = << <<"1", "2">>, <<"-", "4">> >>
    /\ stderr = <<"8", "\n">>

\* ------------------------------------------------- concurrent invocations
\* the records of thread t in the queue, in order
RecordsOf(t) ==
    LET Mine(r) == r.thread = t
    IN  SelectSeq(q, Mine)

RECURSIVE TotalEmitted(_)
TotalEmitted(n) == IF n = 0 THEN 0 ELSE Emitted(pc[n]) + TotalEmitted(n - 1)

\* an invocation's results and records derive from its own arguments
OwnInputsOnly ==
    /\ \A t \in Threads : pc[t] = "done" => ret[t] = ArithSum(vargs[t])
    /\ \A i \in 1..Len(q) :
           \/ IsCalculating(getMessage(q[i]), vargs[q[i].thread])
           \/ IsResult(getMessage(q[i]), ArithSum(vargs[q[i].thread]))
    /\ \A i \in 1..Len(StreamTexts) :
           \E t \in Threads :
               /\ pc[t] # "idle"
               /\ \/ IsCalculating(StreamTexts[i], vargs[t])
                  \/ IsResult(StreamTexts[i], ArithSum(vargs[t]))

\* a step of one invocation leaves every other invocation's locals alone
LocalsUntouched ==
    \A t \in Threads :
        pc'[t] # pc[t] =>
            \A u \in Threads \ {t} :
                /\ pc'[u] = pc[u] /\ vargs'[u] = vargs[u]
                /\ res'[u] = res[u] /\ ret'[u] = ret[u]

\* C9: in every interleaving, an invocation returns the sum of its own
\* arguments, every record in the shared sink is the rendering of the
\* arguments, or of their sum, of the invocation that emitted it, and no
\* step of an invocation changes another invocation's arguments, res or
\* returned value: the sink is all they share.
C9_InvocationsIndependent == []OwnInputsOnly /\ [][LocalsUntouched]_vars

C9_Witness ==
    /\ pc[1] = "done" /\ pc[2] = "done"
    /\ vargs[1] = <<1, 2>> /\ vargs[2] = <<5>>
    /\ ret[1] = 3 /\ ret[2] = 5
    /\ Len(q) = 4
    /\ q[1].thread = 1 /\ q[2].thread = 2 /\ q[3].thread = 2 /\ q[4].thread = 1

\* C10: in every interleaving at DEBUG with one shared sink, the sink holds
\* exactly the records each invocation has emitted so far (two once it has
\* passed its second call), none lost or duplicated, and an invocation's
\* 'Calculating the sum of' record precedes its 'Result is' record.
C10_TwoRecordsPerInvocation ==
    /\ "queue" \in handlers =>
           /\ Len(q) = TotalEmitted(NumThreads)
           /\ \A t \in Threads :
                  LET mine == RecordsOf(t)
                  IN  /\ Len(mine) = Emitted(pc[t])
                      /\ Len(mine) >= 1 => IsCalculating(getMessage(mine[1]), vargs[t])
                      /\ Len(mine) >= 2 => IsResult(getMessage(mine[2]), res[t])
    /\ "stream" \in handlers =>
           /\ Len(StreamTexts) = TotalEmitted(NumThreads)
           /\ \A t \in Threads :
                  Emitted(pc[t]) = 2 =>
                      \E i \in 1..Len(StreamTexts) : \E j \in (i + 1)..Len(StreamTexts) :
                          /\ IsCalculating(StreamTexts[i], vargs[t])
                          /\ IsResult(StreamTexts[j], res[t])

C10_Witness ==
    /\ "queue" \in handlers
    /\ pc[1] = "done" /\ pc[2] = "done"
    /\ Len(q) = 4
    /\ q[1].thread = 2 /\ q[2].thread = 1 /\ q[3].thread = 2 /\ q[4].thread = 1

====
